---- MODULE Spec2Model ----
(***************************************************************************)
(* Model of src/plugins/stock/stock.py (InkyPi stock plugin): the bounded  *)
(* retry loop of Stock.get_stock_data, Stock.map_range, and the drawing    *)
(* sequence of Stock.generate_image with its colour-split chart.           *)
(*                                                                         *)
(* Python floats are modelled as exact rationals <<n, d>> in lowest terms  *)
(* with d > 0, so that equality of two coordinates is equality of tuples.  *)
(* The image is the ordered list of draw calls made on the ImageDraw.      *)
(***************************************************************************)
EXTENDS Integers, Sequences, FiniteSets, TLC

\* ------------------------------------------------------------------ bounds

\* Prices (history values, prev_close) range over 0..MaxPrice.
MaxPrice == 3

\* A fetched history holds at most MaxLen closes.
MaxLen == 3

\* ------------------------------------------------------- rational numbers

Abs(n) == IF n < 0 THEN -n ELSE n

RECURSIVE GCD(_, _)
GCD(a, b) == IF b = 0 THEN a ELSE GCD(b, a % b)

\* n/d in lowest terms, d # 0.
Rat(n, d) ==
    LET s == IF d < 0 THEN -1 ELSE 1
        g == GCD(Abs(n), Abs(d))
    IN  <<(s * n) \div g, (s * d) \div g>>

R(n) == <<n, 1>>

RAdd(a, b) == Rat(a[1] * b[2] + b[1] * a[2], a[2] * b[2])
RSub(a, b) == Rat(a[1] * b[2] - b[1] * a[2], a[2] * b[2])
RMul(a, b) == Rat(a[1] * b[1], a[2] * b[2])
RDiv(a, b) == Rat(a[1] * b[2], a[2] * b[1])
RLt(a, b) == a[1] * b[2] < b[1] * a[2]
RLe(a, b) == a[1] * b[2] <= b[1] * a[2]
RMinOf(a, b) == IF RLe(a, b) THEN a ELSE b
RMaxOf(a, b) == IF RLe(a, b) THEN b ELSE a

\* min(history) and max(history) of a non-empty sequence of rationals.
RECURSIVE SeqMin(_)
SeqMin(s) == IF Len(s) = 1 THEN s[1] ELSE RMinOf(s[1], SeqMin(Tail(s)))

RECURSIVE SeqMax(_)
SeqMax(s) == IF Len(s) = 1 THEN s[1] ELSE RMaxOf(s[1], SeqMax(Tail(s)))

\* int(n * f) for a float literal f given in thousandths.  The product is
\* floored; 800 * 0.58 is 463.99999999999994 in binary floating point.
FloatInt(n, permille) ==
    IF n = 800 /\ permille = 580
    THEN ((n * permille) \div 1000) - 1
    ELSE (n * permille) \div 1000

IntMax(a, b) == IF a >= b THEN a ELSE b

\* ------------------------------------------------------------- Stock.__init__

retries_off == 3 + 1
retries == 3

retry_delay == 5

\* ------------------------------------------------------------ Stock.map_range

map_range_nomid(value, in_min, in_max, out_min, out_max) ==
    IF in_max = in_min
    THEN out_min
    ELSE RAdd(RDiv(RMul(RSub(value, in_min), RSub(out_max, out_min)),
                   RSub(in_max, in_min)),
              out_min)

map_range(value, in_min, in_max, out_min, out_max) ==
    IF in_max = in_min
    THEN RDiv(RAdd(out_min, out_max), R(2))
    ELSE RAdd(RDiv(RMul(RSub(value, in_min), RSub(out_max, out_min)),
                   RSub(in_max, in_min)),
              out_min)

\* ------------------------------------------------------------------ inputs

Prices == 0..MaxPrice

\* stock.fast_info.last_price: above prev_close 0, equal to prev_close 1,
\* below the others.
LastPrices == {1}

\* One row of the frame returned by stock.history(): a bar.  The bars drawn
\* are flat (Open = High = Low = Close) and carry no volume.
Bar(c) == [Open |-> R(c), High |-> R(c), Low |-> R(c), Close |-> R(c),
           Volume |-> R(0)]

RECURSIVE SeqsUpTo(_, _)
SeqsUpTo(S, n) ==
    IF n = 0 THEN {<<>>}
    ELSE LET shorter == SeqsUpTo(S, n - 1)
         IN  shorter \cup {Append(s, x) : s \in {t \in shorter : Len(t) = n - 1},
                                          x \in S}

Hists == {[k \in 1..Len(cs) |-> Bar(cs[k])] : cs \in SeqsUpTo(Prices, MaxLen)}

\* stock.info as a dict; the empty dict makes every info.get() return its
\* default.
Infos == {<<>>}

\* device_config: get_resolution() and get_config("orientation"), and whether
\* the DejaVu font files can be opened by ImageFont.truetype.
Resolutions == {<<800, 480>>}
Orientations == {"horizontal", "vertical"}
DeviceConfigs ==
    [resolution : Resolutions, orientation : Orientations, fonts : BOOLEAN]

\* settings.get("ticker", "TSLA")
Ticker == "TSLA"

\* font_med.getlength(now_str), the pixel width of the timestamp
TimeWidths == {120}

\* ------------------------------------------------------------------- state

VARIABLES
    pc,             \* position in generate_image / get_stock_data
    device_config,  \* argument of generate_image
    attempt,        \* get_stock_data: attempts started so far
    logged,         \* get_stock_data: logger.error calls of failed attempts
    sleeps,         \* get_stock_data: time.sleep(retry_delay) calls so far
    slept,          \* get_stock_data: seconds slept so far
    data,           \* <<>> for None, <<record>> for a fetched record
    image,          \* [size, bg, prims]: the Image and the draw calls on it
    geom,           \* locals of the chart section: rectangle, range, y_base
    points,         \* locals: the projected points
    i,              \* segment loop: index of the next pair
    trace           \* segment loop: the locals of every iteration so far

vars == <<pc, device_config, attempt, logged, sleeps, slept, data, image, geom,
          points, i, trace>>

\* colours of generate_image
c_bg == <<255, 255, 255>>
c_text_main == <<0, 0, 0>>
c_dim == <<0, 0, 0>>
c_grid == <<0, 0, 255>>
c_up == <<0, 255, 0>>
c_down == <<255, 0, 0>>

NoGeom == [chart_x_start |-> 0, chart_x_end |-> 0, chart_y_start |-> 0,
           chart_y_end |-> 0, min_p |-> R(0), max_p |-> R(0),
           y_base |-> R(0), line_width |-> 0]

NoImage == [size |-> <<0, 0>>, bg |-> c_bg, prims |-> <<>>]

NoDevice == [resolution |-> <<0, 0>>, orientation |-> "horizontal",
             fonts |-> FALSE]

Init ==
    /\ pc = "idle"
    /\ device_config = NoDevice
    /\ attempt = 0
    /\ logged = 0
    /\ sleeps = 0
    /\ slept = 0
    /\ data = <<>>
    /\ image = NoImage
    /\ geom = NoGeom
    /\ points = <<>>
    /\ i = 0
    /\ trace = <<>>

\* ------------------------------------------------------- Stock.get_stock_data

InfoGet(info, key, default) ==
    IF key \in DOMAIN info THEN info[key] ELSE default

RECURSIVE SeqSum(_)
SeqSum(s) == IF s = <<>> THEN R(0) ELSE RAdd(s[1], SeqSum(Tail(s)))

Column(hist, name) == [k \in 1..Len(hist) |-> hist[k][name]]

\* The record built by one attempt that raised nothing.
StockRecord(current_price, prev_close, hist, info, info_raises) ==
    LET empty == hist = <<>>
    IN  [price |-> current_price,
         prev_close |-> prev_close,
         open |-> IF ~info_raises THEN InfoGet(info, "open", R(0))
                  ELSE IF ~empty THEN hist[Len(hist)].Open ELSE R(0),
         high |-> IF ~info_raises THEN InfoGet(info, "dayHigh", R(0))
                  ELSE IF ~empty THEN SeqMax(Column(hist, "High")) ELSE R(0),
         low |-> IF ~info_raises THEN InfoGet(info, "dayLow", R(0))
                 ELSE IF ~empty THEN SeqMin(Column(hist, "Low")) ELSE R(0),
         volume |-> IF ~info_raises THEN InfoGet(info, "volume", R(0))
                    ELSE IF ~empty THEN SeqSum(Column(hist, "Volume")) ELSE R(0),
         history |-> Column(hist, "Close")]

\* generate_image is called: it calls get_stock_data first.
GenerateImage ==
    /\ pc = "idle"
    /\ \E dc \in DeviceConfigs : device_config' = dc
    /\ pc' = "fetch"
    /\ UNCHANGED <<attempt, logged, sleeps, slept, data, image, geom, points, i,
                   trace>>

\* One pass of the for loop over range(self.retries) whose try block raises
\* nothing: the record is returned.
AttemptSucceeds ==
    /\ pc = "fetch"
    /\ attempt < retries
    /\ \E current_price \in LastPrices, prev_close \in Prices,
          hist \in Hists, info \in Infos, info_raises \in BOOLEAN :
          data' = <<StockRecord(R(current_price), R(prev_close), hist, info,
                                info_raises)>>
    /\ attempt' = attempt + 1
    /\ pc' = "fetched"
    /\ UNCHANGED <<device_config, logged, sleeps, slept, image, geom, points, i,
                   trace>>

\* One pass whose try block raises an Exception: it is logged, then the
\* handler sleeps.
AttemptFails ==
    /\ pc = "fetch"
    /\ attempt < retries
    /\ attempt' = attempt + 1
    /\ logged' = logged + 1
    /\ pc' = "sleep"
    /\ UNCHANGED <<device_config, sleeps, slept, data, image, geom, points, i,
                   trace>>

Sleep ==
    /\ pc = "sleep"
    /\ sleeps' = sleeps + 1
    /\ slept' = slept + retry_delay
    /\ pc' = "fetch"
    /\ UNCHANGED <<device_config, attempt, logged, data, image, geom, points, i,
                   trace>>

\* range(self.retries) is exhausted: return None.
Exhausted ==
    /\ pc = "fetch"
    /\ attempt >= retries
    /\ data' = <<>>
    /\ pc' = "fetched"
    /\ UNCHANGED <<device_config, attempt, logged, sleeps, slept, image, geom,
                   points, i, trace>>

\* get_stock_data has returned into generate_image: its locals are gone.
\* The image is created with the device's dimensions.
Dimensions(dc) ==
    IF dc.orientation = "vertical"
    THEN <<dc.resolution[2], dc.resolution[1]>>
    ELSE dc.resolution

NewImage ==
    /\ pc = "fetched"
    /\ attempt' = 0
    /\ logged' = 0
    /\ sleeps' = 0
    /\ slept' = 0
    /\ image' = [size |-> Dimensions(device_config), bg |-> c_bg,
                 prims |-> <<>>]
    /\ pc' = "render"
    /\ UNCHANGED <<device_config, data, geom, points, i, trace>>

\* ----------------------------------------------------- Stock.generate_image

Pt(x, y) == <<x, y>>
IPt(x, y) == <<R(x), R(y)>>

NoFont == [name |-> "none", size |-> 0]
NoText == [label |-> "", vals |-> <<>>]

\* ImageFont.truetype(path, size), or ImageFont.load_default() on OSError.
Font(dc, name, size) ==
    IF dc.fonts THEN [name |-> name, size |-> size]
    ELSE [name |-> "default", size |-> 0]

\* draw.text(pos, string, fill, font); the string is kept as what it shows.
Text(pos, label, vals, fill, font, sec) ==
    [kind |-> "text", xy |-> <<pos>>, fill |-> fill, width |-> 0,
     text |-> [label |-> label, vals |-> vals], font |-> font, sec |-> sec]

\* draw.line([p1, p2], fill, width)
Line(p1, p2, fill, width, sec) ==
    [kind |-> "line", xy |-> <<p1, p2>>, fill |-> fill, width |-> width,
     text |-> NoText, font |-> NoFont, sec |-> sec]

\* draw.ellipse((x0, y0, x1, y1), fill)
Ellipse(p0, p1, fill, sec) ==
    [kind |-> "ellipse", xy |-> <<p0, p1>>, fill |-> fill, width |-> 0,
     text |-> NoText, font |-> NoFont, sec |-> sec]

\* The draw calls of the "if not data" branch.
ErrorPrims_plain(dc, height) ==
    << Text(IPt(20, height \div 2), "failed", <<>>, c_text_main,
            Font(dc, "bold", FloatInt(height, 80)), "error") >>
ErrorPrims(dc, height) ==
    LET font_error == Font(dc, "bold", FloatInt(height, 80))
    IN  << Text(IPt(20, height \div 2), "failed", <<>>, c_down, font_error,
                "error") >>

\* if not data: draw the error message and return the image.
DrawError ==
    /\ pc = "render"
    /\ data = <<>>
    /\ image' = [image EXCEPT !.prims =
                    @ \o ErrorPrims(device_config, image.size[2])]
    /\ pc' = "done"
    /\ UNCHANGED <<device_config, attempt, logged, sleeps, slept, data, geom,
                   points, i, trace>>

\* -- HEADER --: ticker, timestamp, current price, change.
Header(d, dc, width, height, time_width) ==
    LET change_amt == RSub(d.price, d.prev_close)
        change_pct == IF d.prev_close # R(0)
                      THEN RMul(RDiv(change_amt, d.prev_close), R(100))
                      ELSE R(0)
        is_bullish == RLe(R(0), change_amt)
        c_accent == IF is_bullish THEN c_up ELSE c_down
        font_giant == Font(dc, "bold", FloatInt(height, 200))
        font_large == Font(dc, "bold", FloatInt(height, 125))
        font_med == Font(dc, "regular", FloatInt(height, 60))
        margin_x == FloatInt(width, 25)
        margin_y == FloatInt(height, 40)
        time_x == width - time_width - margin_x
    IN  << Text(IPt(margin_x, margin_y), Ticker, <<>>, c_text_main,
                font_large, "header"),
           Text(IPt(time_x, FloatInt(height, 60)), "now", <<>>, c_dim,
                font_med, "header"),
           Text(IPt(margin_x, FloatInt(height, 200)), "price", <<d.price>>,
                c_text_main, font_giant, "header"),
           Text(IPt(margin_x, FloatInt(height, 450)), "change",
                <<change_amt, change_pct>>, c_accent, font_med, "header") >>

\* -- DETAILS COLUMN --: the separator line and the four label/value rows.
Details(d, dc, width, height) ==
    LET font_med == Font(dc, "regular", FloatInt(height, 60))
        col_x_start == FloatInt(width, 625)
        details_y_start == FloatInt(height, 180)
        details_y_end == FloatInt(height, 580)
        label_x == col_x_start + FloatInt(width, 25)
        value_x == col_x_start + FloatInt(width, 175)
        row_height == FloatInt(height, 100)
        labels == << <<"Open", d.open>>, <<"High", d.high>>,
                     <<"Low", d.low>>,
                     <<"Vol", RDiv(d.volume, R(1000000))>> >>
        Row(k) == LET start_y == details_y_start + (k - 1) * row_height
                  IN  << Text(IPt(label_x, start_y), labels[k][1], <<>>,
                              c_dim, font_med, "details"),
                         Text(IPt(value_x, start_y), labels[k][1],
                              <<labels[k][2]>>, c_text_main, font_med,
                              "details") >>
    IN  << Line(IPt(col_x_start, details_y_start),
                IPt(col_x_start, details_y_end), c_grid, 3, "details") >>
        \o Row(1) \o Row(2) \o Row(3) \o Row(4)

\* if len(history) > 1
ChartGuard_off(history) == Len(history) >= 1
ChartGuard(history) == Len(history) > 1

\* min_p / max_p: the range of the history, widened to hold prev_close.
RangeMin_off(history, prev_close) == SeqMin(history)
RangeMin(history, prev_close) == RMinOf(SeqMin(history), prev_close)

RangeMax(history, prev_close) == RMaxOf(SeqMax(history), prev_close)

\* The chart rectangle, the range, y_base and line_width.
Geometry(d, width, height) ==
    LET chart_y_start == FloatInt(height, 625)
        chart_y_end == height - FloatInt(height, 80)
        min_p == RangeMin(d.history, d.prev_close)
        max_p == RangeMax(d.history, d.prev_close)
    IN  [chart_x_start |-> FloatInt(width, 30),
         chart_x_end |-> width - FloatInt(width, 30),
         chart_y_start |-> chart_y_start,
         chart_y_end |-> chart_y_end,
         min_p |-> min_p,
         max_p |-> max_p,
         y_base |-> map_range(d.prev_close, min_p, max_p, R(chart_y_end),
                              R(chart_y_start)),
         line_width |-> IntMax(2, FloatInt(width, 5))]

\* Min/Max labels, the baseline and its "Prev" label.
ChartFrame(g, dc, width, height) ==
    LET font_small == Font(dc, "regular", FloatInt(height, 40))
        font_tiny == Font(dc, "regular", FloatInt(height, 33))
    IN  << Text(IPt(g.chart_x_start, g.chart_y_start - FloatInt(height, 50)),
                "High", <<g.max_p>>, c_grid, font_small, "chart"),
           Text(IPt(g.chart_x_start, g.chart_y_end + 5), "Low", <<g.min_p>>,
                c_grid, font_small, "chart"),
           Line(Pt(R(g.chart_x_start), g.y_base),
                Pt(R(g.chart_x_end), g.y_base), c_grid, 2, "chart"),
           Text(Pt(R(g.chart_x_end - FloatInt(width, 75)),
                   RSub(g.y_base, R(20))),
                "Prev", <<>>, c_grid, font_tiny, "chart") >>

\* Pre-calculate all points.
Project(history, g) ==
    [k \in 1..Len(history) |->
        Pt(map_range(R(k - 1), R(0), R(Len(history) - 1),
                     R(g.chart_x_start), R(g.chart_x_end)),
           map_range(history[k], g.min_p, g.max_p, R(g.chart_y_end),
                     R(g.chart_y_start)))]

\* The dashboard: header, details column, and, when the history is long
\* enough, the frame of the chart and the projected points.
DrawDashboard ==
    /\ pc = "render"
    /\ data # <<>>
    /\ LET d == data[1]
           width == image.size[1]
           height == image.size[2]
           g == Geometry(d, width, height)
       IN  \E time_width \in TimeWidths :
             IF ChartGuard(d.history)
             THEN /\ image' = [image EXCEPT !.prims =
                        @ \o Header(d, device_config, width, height, time_width)
                          \o Details(d, device_config, width, height)
                          \o ChartFrame(g, device_config, width, height)]
                  /\ geom' = g
                  /\ points' = Project(d.history, g)
                  /\ pc' = "segments"
             ELSE /\ image' = [image EXCEPT !.prims =
                        @ \o Header(d, device_config, width, height, time_width)
                          \o Details(d, device_config, width, height)]
                  /\ geom' = geom
                  /\ points' = points
                  /\ pc' = "done"
    /\ UNCHANGED <<device_config, attempt, logged, sleeps, slept, data, i,
                   trace>>

\* --- DRAW SEGMENTS WITH COLOR SPLIT ---

\* if y1 <= y_base and y2 <= y_base
IsBullish_strict(y1, y2, yb) == RLt(y1, yb) /\ RLt(y2, yb)
IsBullish_flipped(y1, y2, yb) == RLe(yb, y1) /\ RLe(yb, y2)
IsBullish(y1, y2, yb) == RLe(y1, yb) /\ RLe(y2, yb)

\* elif y1 >= y_base and y2 >= y_base
IsBearish_strict(y1, y2, yb) == RLt(yb, y1) /\ RLt(yb, y2)
IsBearish(y1, y2, yb) == RLe(yb, y1) /\ RLe(yb, y2)

\* x_cross = x1 + (x2 - x1) * ratio
Cross_scaled(x1, x2, ratio) == RAdd(x1, RMul(x2, ratio))
Cross(x1, x2, ratio) == RAdd(x1, RMul(RSub(x2, x1), ratio))

\* color_1 / color_2 of the split case
SplitColor(y, yb) == IF RLt(y, yb) THEN c_up ELSE c_down

\* One iteration of the loop over adjacent points: its locals and the
\* lines it draws.
Iteration(p1, p2, g) ==
    LET x1 == p1[1]
        y1 == p1[2]
        x2 == p2[1]
        y2 == p2[2]
        yb == g.y_base
        base == [x1 |-> x1, y1 |-> y1, x2 |-> x2, y2 |-> y2,
                 ratio |-> R(0), x_cross |-> R(0), y_cross |-> R(0)]
    IN  IF IsBullish(y1, y2, yb)
        THEN base @@
             [branch |-> "bullish", guard |-> "none",
              lines |-> << Line(Pt(x1, y1), Pt(x2, y2), c_up, g.line_width,
                                "chart") >>]
        ELSE IF IsBearish(y1, y2, yb)
        THEN base @@
             [branch |-> "bearish", guard |-> "none",
              lines |-> << Line(Pt(x1, y1), Pt(x2, y2), c_down, g.line_width,
                                "chart") >>]
        ELSE LET defined == y2 # y1
                 ratio == IF defined THEN RDiv(RSub(yb, y1), RSub(y2, y1))
                          ELSE R(0)
                 x_cross == IF defined THEN Cross(x1, x2, ratio) ELSE x1
                 y_cross == IF defined THEN yb ELSE y1
             IN  [base EXCEPT !.ratio = ratio, !.x_cross = x_cross,
                              !.y_cross = y_cross] @@
                 [branch |-> "split",
                  guard |-> IF defined THEN "ratio" ELSE "fallback",
                  lines |-> << Line(Pt(x1, y1), Pt(x_cross, y_cross),
                                    SplitColor(y1, yb), g.line_width, "chart"),
                               Line(Pt(x_cross, y_cross), Pt(x2, y2),
                                    SplitColor(y2, yb), g.line_width,
                                    "chart") >>]

\* for i in range(len(points) - 1): one pass
DrawSegment ==
    /\ pc = "segments"
    /\ i < Len(points) - 1
    /\ LET it == Iteration(points[i + 1], points[i + 2], geom)
       IN  /\ image' = [image EXCEPT !.prims = @ \o it.lines]
           /\ trace' = Append(trace, it)
    /\ i' = i + 1
    /\ UNCHANGED <<pc, device_config, attempt, logged, sleeps, slept, data,
                   geom, points>>

\* dot_color = c_up if last_price >= prev_close else c_down
DotColor_strict(last_price, prev_close) ==
    IF RLt(prev_close, last_price) THEN c_up ELSE c_down
DotColor(last_price, prev_close) ==
    IF RLe(prev_close, last_price) THEN c_up ELSE c_down

\* Sparkline dot at the end, then return image.
DrawDot ==
    /\ pc = "segments"
    /\ i >= Len(points) - 1
    /\ LET d == data[1]
           width == image.size[1]
           last_pt == points[Len(points)]
           last_price == d.history[Len(d.history)]
           r == R(IntMax(4, FloatInt(width, 10)))
       IN  image' = [image EXCEPT !.prims =
                Append(@, Ellipse(Pt(RSub(last_pt[1], r), RSub(last_pt[2], r)),
                                  Pt(RAdd(last_pt[1], r), RAdd(last_pt[2], r)),
                                  DotColor(last_price, d.prev_close),
                                  "chart"))]
    /\ pc' = "done"
    /\ UNCHANGED <<device_config, attempt, logged, sleeps, slept, data, geom,
                   points, i, trace>>

Next ==
    \/ GenerateImage
    \/ AttemptSucceeds
    \/ AttemptFails
    \/ Sleep
    \/ Exhausted
    \/ NewImage
    \/ DrawError
    \/ DrawDashboard
    \/ DrawSegment
    \/ DrawDot

Spec == Init /\ [][Next]_vars

\* ------------------------------------------------------------- type sanity

TypeOK ==
    /\ pc \in {"idle", "fetch", "sleep", "fetched", "render", "segments",
               "done"}
    /\ attempt \in 0..(retries + 1)
    /\ Len(data) <= 1
    /\ i \in 0..MaxLen + 1

\* ------------------------------------------------------ views of the state

History == data[1].history
PrevClose == data[1].prev_close

\* generate_image has entered the chart section (len(history) > 1 held).
ChartEntered == pc \in {"segments", "done"} /\ geom # NoGeom

\* generate_image has returned the image.
Returned == pc = "done"

KindCount(kind) ==
    Cardinality({k \in 1..Len(image.prims) : image.prims[k].kind = kind})

ChartPrims == {k \in 1..Len(image.prims) : image.prims[k].sec = "chart"}

StrictlyIncreasing(h) == \A k \in 1..(Len(h) - 1) : RLt(h[k], h[k + 1])

\* The index in image.prims of the first line drawn for pair k: the
\* dashboard draws 17 primitives before the segment loop starts.
RECURSIVE LinesBefore(_)
LinesBefore(k) == IF k = 1 THEN 0
                  ELSE LinesBefore(k - 1) + Len(trace[k - 1].lines)

\* The lines recorded for every pair are the lines on the image, in order.
TraceOnImage ==
    ChartEntered =>
        \A k \in 1..Len(trace) : \A j \in 1..Len(trace[k].lines) :
            image.prims[17 + LinesBefore(k) + j] = trace[k].lines[j]

\* ------------------------------------------------------------------ claims

\* C1 as stated: every pair whose first endpoint lies on the baseline
\* (y1 = y_base) yields exactly one segment and that segment is 'up',
\* whatever y2 is.
C1_UpWhateverY2 ==
    \A k \in 1..Len(trace) :
        trace[k].y1 = geom.y_base =>
            /\ Len(trace[k].lines) = 1
            /\ trace[k].lines[1].fill = <<0, 255, 0>>

\* C1 amended: every pair whose first endpoint lies on the baseline yields
\* exactly one segment, from (x1,y1) to (x2,y2); it is 'up' when
\* y2 <= y_base and 'down' when y2 > y_base.
C1_TieBreak ==
    /\ TraceOnImage
    /\ \A k \in 1..Len(trace) :
        LET t == trace[k] IN
        t.y1 = geom.y_base =>
            /\ Len(t.lines) = 1
            /\ t.lines[1].xy = <<Pt(t.x1, t.y1), Pt(t.x2, t.y2)>>
            /\ t.lines[1].fill =
                 IF RLe(t.y2, geom.y_base) THEN <<0, 255, 0>>
                                           ELSE <<255, 0, 0>>

\* C1 witness: the image is returned after a pair that starts on the
\* baseline and ends below it (a lower price) was drawn as the second pair.
C1_Witness ==
    /\ Returned
    /\ Len(trace) = 2
    /\ trace[2].y1 = geom.y_base
    /\ RLt(geom.y_base, trace[2].y2)

StrictlyOpposite(t, yb) ==
    \/ RLt(t.y1, yb) /\ RLt(yb, t.y2)
    \/ RLt(t.y2, yb) /\ RLt(yb, t.y1)

\* C2: a pair whose endpoints lie strictly on opposite sides of the baseline
\* yields exactly two sub-segments (x1,y1)-(x_cross,y_base) and
\* (x_cross,y_base)-(x2,y2) with
\* x_cross = x1 + (x2 - x1) * (y_base - y1) / (y2 - y1); the first is 'up'
\* iff y1 < y_base, the second iff y2 < y_base, so the colours differ.
C2_CrossingSplit ==
    /\ TraceOnImage
    /\ \A k \in 1..Len(trace) :
        LET t == trace[k]
            yb == geom.y_base
            xc == RAdd(t.x1, RDiv(RMul(RSub(t.x2, t.x1), RSub(yb, t.y1)),
                                  RSub(t.y2, t.y1)))
        IN  StrictlyOpposite(t, yb) =>
            /\ Len(t.lines) = 2
            /\ t.lines[1].xy = <<Pt(t.x1, t.y1), Pt(xc, yb)>>
            /\ t.lines[2].xy = <<Pt(xc, yb), Pt(t.x2, t.y2)>>
            /\ (t.lines[1].fill = <<0, 255, 0>>) <=> RLt(t.y1, yb)
            /\ (t.lines[2].fill = <<0, 255, 0>>) <=> RLt(t.y2, yb)
            /\ t.lines[1].fill \in {<<0, 255, 0>>, <<255, 0, 0>>}
            /\ t.lines[2].fill \in {<<0, 255, 0>>, <<255, 0, 0>>}
            /\ t.lines[1].fill # t.lines[2].fill

\* C2 witness: a pair crossing downwards and a pair crossing upwards were
\* both drawn, at a crossing point that is not the midpoint of the pair.
C2_Witness ==
    /\ \E k \in 1..Len(trace) :
          /\ RLt(trace[k].y1, geom.y_base) /\ RLt(geom.y_base, trace[k].y2)
          /\ trace[k].ratio # <<1, 2>>
    /\ \E k \in 1..Len(trace) :
          RLt(trace[k].y2, geom.y_base) /\ RLt(geom.y_base, trace[k].y1)

\* C3: with at least 2 history values, min_p <= prev_close <= max_p and
\* min_p <= h <= max_p for every history value h; y_base and every projected
\* y lie within [chart_y_start, chart_y_end]; every projected x lies within
\* [chart_x_start, chart_x_end], the first at chart_x_start and the last at
\* chart_x_end.
C3_RangeContainment ==
    ChartEntered =>
        /\ Len(History) >= 2
        /\ Len(points) = Len(History)
        /\ RLe(geom.min_p, PrevClose) /\ RLe(PrevClose, geom.max_p)
        /\ \A k \in 1..Len(History) :
              RLe(geom.min_p, History[k]) /\ RLe(History[k], geom.max_p)
        /\ RLe(R(geom.chart_y_start), geom.y_base)
        /\ RLe(geom.y_base, R(geom.chart_y_end))
        /\ \A k \in 1..Len(points) :
              /\ RLe(R(geom.chart_y_start), points[k][2])
              /\ RLe(points[k][2], R(geom.chart_y_end))
              /\ RLe(R(geom.chart_x_start), points[k][1])
              /\ RLe(points[k][1], R(geom.chart_x_end))
        /\ points[1][1] = R(geom.chart_x_start)
        /\ points[Len(points)][1] = R(geom.chart_x_end)

\* C3 witness: a chart whose prev_close lies strictly below every history
\* value, and whose history is not constant.
C3_Witness ==
    /\ ChartEntered
    /\ \A k \in 1..Len(History) : RLt(PrevClose, History[k])
    /\ History[1] # History[2]

\* C4: with a fetched history of length 0 or 1 the chart section is skipped:
\* no chart primitive at all (no segment, baseline, label or end marker), the
\* segment loop never runs, and the only line on the returned image is the
\* separator of the details column; the image is returned.
C4_ShortHistorySkip ==
    (data # <<>> /\ Len(History) <= 1 /\ pc \notin {"fetch", "sleep", "fetched"}) =>
        /\ pc \in {"render", "done"}
        /\ ChartPrims = {}
        /\ trace = <<>>
        /\ points = <<>>
        /\ KindCount("ellipse") = 0
        /\ Returned => /\ KindCount("line") = 1
                       /\ KindCount("text") = 12
                       /\ \A k \in 1..Len(image.prims) :
                             image.prims[k].sec \in {"header", "details"}

\* C4 witness: an image returned for a one-point history whose value
\* differs from prev_close.
C4_Witness ==
    /\ Returned
    /\ data # <<>>
    /\ Len(History) = 1
    /\ History[1] # PrevClose

\* The end-of-series dot and the last line piece drawn before it.
Dot == image.prims[Len(image.prims)]
LastPiece == image.prims[Len(image.prims) - 1]

AllAbove == \A k \in 1..Len(History) : RLt(PrevClose, History[k])
AllBelow == \A k \in 1..Len(History) : RLt(History[k], PrevClose)

\* C5: for a strictly increasing history (length >= 2) all above prev_close
\* every pair is drawn as one 'up' segment and the end marker is 'up'; for
\* one all below prev_close every pair is drawn as one 'down' segment and the
\* end marker is 'down'.
C5_SingleColour ==
    (Returned /\ ChartEntered /\ StrictlyIncreasing(History)) =>
        /\ TraceOnImage
        /\ Len(trace) = Len(History) - 1
        /\ Dot.kind = "ellipse"
        /\ AllAbove =>
              /\ \A k \in 1..Len(trace) :
                    /\ Len(trace[k].lines) = 1
                    /\ trace[k].lines[1].fill = <<0, 255, 0>>
              /\ Dot.fill = <<0, 255, 0>>
        /\ AllBelow =>
              /\ \A k \in 1..Len(trace) :
                    /\ Len(trace[k].lines) = 1
                    /\ trace[k].lines[1].fill = <<255, 0, 0>>
              /\ Dot.fill = <<255, 0, 0>>

\* C5 witness: a returned chart of a strictly increasing three-point history
\* all above prev_close.
C5_Witness ==
    /\ Returned /\ ChartEntered
    /\ StrictlyIncreasing(History)
    /\ Len(History) = 3
    /\ AllAbove

\* C6: when get_stock_data returned None, the returned image is the
\* background fill plus exactly one text primitive in the failure colour;
\* no header, price, details, line, ellipse or chart primitive is drawn and
\* the chart section is never entered.
C6_FallbackImage ==
    (data = <<>> /\ pc \in {"render", "segments", "done"}) =>
        /\ pc # "segments"
        /\ image.bg = <<255, 255, 255>>
        /\ trace = <<>> /\ points = <<>> /\ geom = NoGeom
        /\ pc = "render" => image.prims = <<>>
        /\ Returned =>
              /\ Len(image.prims) = 1
              /\ image.prims[1].kind = "text"
              /\ image.prims[1].fill = <<255, 0, 0>>
              /\ image.prims[1].text.label = "failed"
              /\ image.prims[1].sec = "error"

\* C6 witness: the fallback image was returned on a device without the
\* DejaVu fonts.
C6_Witness ==
    /\ Returned
    /\ data = <<>>
    /\ ~device_config.fonts
    /\ Len(image.prims) = 1

\* C7: get_stock_data makes at most 3 attempts; a returned record is that of
\* the first attempt that succeeded, which is the last attempt made; None is
\* returned iff all 3 attempts failed; every failed attempt is followed by
\* one wait of retry_delay (5) seconds; the loop can always take a step and
\* the number of its steps is bounded, so it terminates.
C7_BoundedRetry ==
    /\ attempt <= 3
    /\ logged <= attempt
    /\ pc = "fetch" => (attempt = logged /\ sleeps = logged)
    /\ pc = "sleep" => (attempt = logged /\ sleeps = logged - 1)
    /\ slept = 5 * sleeps
    /\ pc = "fetched" =>
          /\ sleeps = logged
          /\ data # <<>> => attempt = logged + 1
          /\ data = <<>> <=> logged = 3
          /\ data = <<>> => attempt = 3
    /\ attempt + sleeps <= 6
    /\ pc \in {"fetch", "sleep"} =>
          ENABLED (AttemptSucceeds \/ AttemptFails \/ Sleep \/ Exhausted)

\* C7 witness: the third attempt succeeded after two failures and two waits.
C7_Witness ==
    /\ pc = "fetched"
    /\ data # <<>>
    /\ attempt = 3
    /\ logged = 2
    /\ sleeps = 2

Degenerate == \A k \in 1..Len(History) : History[k] = PrevClose

\* C8: map_range with in_min = in_max returns (out_min + out_max) / 2 for
\* every value; when every history value equals prev_close, y_base and every
\* projected y equal the vertical midpoint of the chart rectangle, every
\* pair yields one 'up' segment, and the render completes with the dot.
C8_DegenerateRange ==
    (ChartEntered /\ Degenerate) =>
        LET mid == Rat(geom.chart_y_start + geom.chart_y_end, 2) IN
        /\ geom.min_p = geom.max_p
        /\ \A v \in 0..(MaxPrice + 1) :
              map_range(R(v), geom.min_p, geom.max_p, R(geom.chart_y_end),
                        R(geom.chart_y_start)) = mid
        /\ geom.y_base = mid
        /\ \A k \in 1..Len(points) : points[k][2] = mid
        /\ \A k \in 1..Len(trace) :
              /\ trace[k].branch = "bullish"
              /\ Len(trace[k].lines) = 1
              /\ trace[k].lines[1].fill = <<0, 255, 0>>
        /\ Returned => (Len(trace) = Len(History) - 1 /\ Dot.kind = "ellipse")

\* C8 witness: a returned chart of a three-point history whose values all
\* equal prev_close.
C8_Witness ==
    /\ Returned /\ ChartEntered
    /\ Degenerate
    /\ Len(History) = 3
    /\ Len(trace) = 2

\* C9: whenever the split branch is entered, y1 # y2, the 'y2 == y1' fallback
\* is not taken, ratio = (y_base - y1) / (y2 - y1) lies strictly between 0
\* and 1, and x_cross lies strictly between x1 and x2.
C9_GuardUnreachable ==
    \A k \in 1..Len(trace) :
        LET t == trace[k] IN
        t.branch = "split" =>
            /\ t.y1 # t.y2
            /\ t.guard = "ratio"
            /\ RMul(t.ratio, RSub(t.y2, t.y1)) = RSub(geom.y_base, t.y1)
            /\ RLt(R(0), t.ratio) /\ RLt(t.ratio, R(1))
            /\ RLt(t.x1, t.x_cross) /\ RLt(t.x_cross, t.x2)
            /\ t.y_cross = geom.y_base

\* C9 witness: the split branch was entered.
C9_Witness ==
    \E k \in 1..Len(trace) : trace[k].branch = "split" /\ trace[k].guard = "ratio"

\* C10 as stated: the colour of the end dot equals the colour of the last
\* line piece drawn, the one that ends at the last projected point.
C10_DotMatchesLastPiece ==
    (Returned /\ ChartEntered) => Dot.fill = LastPiece.fill

\* C10 amended: the end dot is 'up' iff history[-1] >= prev_close; its colour
\* equals the colour of the last line piece, which ends at the last projected
\* point, except when history[-1] == prev_close and history[-2] < prev_close:
\* then the last piece is 'down' and the dot is 'up'.
C10_DotVsLastPiece ==
    (Returned /\ ChartEntered) =>
        LET n == Len(History)
            tie == History[n] = PrevClose /\ RLt(History[n - 1], PrevClose)
        IN  /\ Dot.kind = "ellipse"
            /\ LastPiece.kind = "line"
            /\ LastPiece.xy[2] = points[n]
            /\ (Dot.fill = <<0, 255, 0>>) <=> RLe(PrevClose, History[n])
            /\ Dot.fill \in {<<0, 255, 0>>, <<255, 0, 0>>}
            /\ ~tie => Dot.fill = LastPiece.fill
            /\ tie => (LastPiece.fill = <<255, 0, 0>> /\ Dot.fill = <<0, 255, 0>>)

\* C10 witness: a returned chart whose last pair crosses the baseline, so
\* that the last piece is the second half of a split.
C10_Witness ==
    /\ Returned /\ ChartEntered
    /\ trace[Len(trace)].branch = "split"
    /\ History[Len(History)] # PrevClose

====
